---- MODULE Spec2Model ----
(***************************************************************************)
(* The async hostcall trampoline of lucet-runtime-internals (future.rs):   *)
(* Vmctx::block_on, which yields a boxed future from a hostcall running on *)
(* the guest stack, and Instance::run_async, the driver loop that steps    *)
(* the instance, awaits the yielded futures and resumes the instance with  *)
(* their results.  The instance primitive (run_func, resume_with_val_impl, *)
(* yield_val_expecting_val, is_yielded, the State enum) lives in           *)
(* instance.rs and is modelled from its documented behaviour.              *)
(***************************************************************************)
EXTENDS Integers, Sequences, FiniteSets, TLC

\* ---------------------------------------------------------------- bounds
MaxBlockOn == 3      \* block_on calls a guest makes on one instance
MaxYields == 1       \* yields of a value that is not a future, per instance
MaxRuns == 2         \* run_async calls made on one instance
MaxVal == 2          \* values range over 1..MaxVal
MaxBlockOnMulti == 2 \* block_on calls of all instances when several are driven
MaxRunsMulti == 2    \* run_async calls on all instances when several are driven

Instances == {1, 2}
Vals == 1 .. MaxVal
Types == {"i32", "String"}          \* the output types R of block_on callers
Exports == {"main"}                 \* the module's exported functions
Entrypoints == {"main", "nope"}     \* names a caller may pass to run_async

VARIABLES
    live,          \* the instances that have been constructed
    state,         \* Instance::state, the tag of the State enum
    async_context, \* State::Running { async_context }
    expecting,     \* what a yielded instance waits to be resumed with
    resumed_val,   \* the value resume_with_val_impl handed to the guest stack
    term,          \* TerminationDetails of a terminated instance
    gpc,           \* where the guest stack is: none, code, blocked, yielded, resumed
    callR,         \* the type R of the block_on call the guest stack is inside
    futs,          \* the futures passed to block_on, in call order
    rets,          \* the values block_on returned to its hostcalls, in order
    retval,        \* the value the entrypoint returned
    yields,        \* number of non-future yields made
    pc,            \* where the run_async future is
    entrypoint,    \* run_async's entrypoint argument
    resume_val,    \* run_async's local Option<ResumeVal>
    run_result,    \* what wrap_blocking returned to the loop
    result,        \* what run_async returned
    awaits,        \* awaits completed by the current run_async run
    blockOns,      \* block_on calls the guest made during the current run_async run
    runs,          \* run_async calls made so far
    sync_result    \* what a synchronous run / resume returned

instVars == <<state, async_context, expecting, resumed_val, term>>
guestVars == <<gpc, callR, futs, rets, retval, yields>>
drvVars == <<pc, entrypoint, resume_val, run_result, result, awaits, blockOns, runs>>
vars == <<live, instVars, guestVars, drvVars, sync_result>>

\* ------------------------------------------------------------ data shapes
\* Option<ResumeVal>: ResumeVal(Box<dyn Any>) keeps the TypeId of the boxed value
None == [tid |-> "None", v |-> 0]
\* Result<RunResult, Error> and Result<UntypedRetVal, Error>
NoRes == [tag |-> "None", v |-> 0, ty |-> "", err |-> ""]
Returned(v) == [tag |-> "Returned", v |-> v, ty |-> "", err |-> ""]
Yielded(yval) == [tag |-> "Yielded", v |-> yval.x, ty |-> yval.ty, err |-> ""]
Err(e) == [tag |-> "Err", v |-> 0, ty |-> "", err |-> e]
Ok(v) == [tag |-> "Ok", v |-> v, ty |-> "", err |-> ""]

Active(i) == pc[i] \in {"loop", "step", "inspect", "await"}
\* the bounds on block_on and run_async calls: per instance when one
\* instance is driven, on the calls of all instances when several are
TotalBlockOns == Cardinality(UNION {{<<j, k>> : k \in 1 .. Len(futs[j])} : j \in live})
TotalRuns == Cardinality(UNION {{<<j, k>> : k \in 1 .. runs[j]} : j \in live})
BlockOnBound(i) ==
    IF Cardinality(live) = 1 THEN Len(futs[i]) < MaxBlockOn
    ELSE TotalBlockOns < MaxBlockOnMulti
RunsBound(i) ==
    IF Cardinality(live) = 1 THEN runs[i] < MaxRuns
    ELSE TotalRuns < MaxRunsMulti

\* ------------------------------------------------- the instance primitive
is_yielded(i) == state[i] = "Yielded"

get_export_func(ep) == ep \in Exports

\* the swap back to the host context: the step's RunResult goes to whoever
\* started the step, the run_async loop or a synchronous caller
StepEnds(i, res) ==
    IF pc[i] = "step"
    THEN /\ run_result' = [run_result EXCEPT ![i] = res]
         /\ pc' = [pc EXCEPT ![i] = "inspect"]
         /\ UNCHANGED sync_result
    ELSE /\ sync_result' = [sync_result EXCEPT ![i] = res]
         /\ UNCHANGED <<run_result, pc>>

\* ------------------------------------------------------- Vmctx::block_on
\* block_on that forgets to look at async_context
BlockOnCheck_noFlag(st, ac) == IF st = "Running" THEN "ok" ELSE "unreachable"

\* the state check at the top of block_on
BlockOnCheck(st, ac) ==
    IF st = "Running"
    THEN IF ~ac THEN "AwaitNeedsAsync" ELSE "ok"
    ELSE "unreachable"

\* a box that keeps the value under the TypeId of another type
BoxResumeVal_wrongType(R, v) == [tid |-> "i32", v |-> v]

\* async move { ResumeVal(Box::new(f.await)) }, f resolving to v of type R
BoxResumeVal(R, v) == [tid |-> R, v |-> v]

\* YieldedFuture(f), passed through the yield as a Box<dyn Any>
WrapYieldedFuture(k) == [ty |-> "YieldedFuture", x |-> k]

\* v.downcast::<R>()
Downcast(rv, R) ==
    IF rv.tid = R THEN [ok |-> TRUE, v |-> rv.v] ELSE [ok |-> FALSE, v |-> 0]

\* a hostcall calls block_on(f), f: Future<Output = R> that resolves to v
GuestBlockOn(i, R, v) ==
    /\ i \in live
    /\ gpc[i] = "code"
    /\ BlockOnBound(i)
    /\ blockOns' = [blockOns EXCEPT ![i] = IF pc[i] = "step" THEN @ + 1 ELSE @]
    /\ LET chk == BlockOnCheck(state[i], async_context[i]) IN
       IF chk = "ok"
       THEN /\ futs' = [futs EXCEPT ![i] =
                   Append(@, [R |-> R, val |-> v, status |-> "boxed"])]
            /\ callR' = [callR EXCEPT ![i] = R]
            /\ gpc' = [gpc EXCEPT ![i] = "blocked"]
            /\ state' = [state EXCEPT ![i] = "Yielded"]
            /\ expecting' = [expecting EXCEPT ![i] = "ResumeVal"]
            /\ StepEnds(i, Yielded(WrapYieldedFuture(Len(futs[i]) + 1)))
            /\ UNCHANGED term
       ELSE /\ state' = [state EXCEPT ![i] = "Terminated"]
            /\ term' = [term EXCEPT ![i] = chk]
            /\ gpc' = [gpc EXCEPT ![i] = "none"]
            /\ StepEnds(i, Err(chk))
            /\ UNCHANGED <<futs, callR, expecting>>
    /\ UNCHANGED <<live, async_context, resumed_val, rets, retval, yields,
                   entrypoint, resume_val, result, awaits, runs>>

\* block_on after the resume: downcast the ResumeVal and return to the hostcall
BlockOnReturn(i) ==
    /\ i \in live
    /\ gpc[i] = "resumed"
    /\ LET d == Downcast(resumed_val[i], callR[i]) IN
       IF d.ok
       THEN /\ rets' = [rets EXCEPT ![i] = Append(@, [R |-> callR[i], v |-> d.v])]
            /\ gpc' = [gpc EXCEPT ![i] = "code"]
            /\ UNCHANGED <<state, term, pc, run_result, sync_result>>
       ELSE /\ state' = [state EXCEPT ![i] = "Terminated"]
            /\ term' = [term EXCEPT ![i] = "BrokeInvariant"]
            /\ gpc' = [gpc EXCEPT ![i] = "none"]
            /\ StepEnds(i, Err("BrokeInvariant"))
            /\ UNCHANGED rets
    /\ resumed_val' = [resumed_val EXCEPT ![i] = None]
    /\ UNCHANGED <<live, async_context, expecting, callR, futs, retval, yields,
                   entrypoint, resume_val, result, awaits, blockOns, runs>>

\* ------------------------------------------- the rest of the guest's step
\* a hostcall yields a value of its own through yield_val_expecting_val
GuestYield(i, v) ==
    /\ i \in live
    /\ gpc[i] = "code"
    /\ yields[i] < MaxYields
    /\ yields' = [yields EXCEPT ![i] = @ + 1]
    /\ gpc' = [gpc EXCEPT ![i] = "yielded"]
    /\ state' = [state EXCEPT ![i] = "Yielded"]
    /\ expecting' = [expecting EXCEPT ![i] = "Val"]
    /\ StepEnds(i, Yielded([ty |-> "Val", x |-> v]))
    /\ UNCHANGED <<live, async_context, resumed_val, term, callR, futs, rets,
                   retval, entrypoint, resume_val, result, awaits, blockOns, runs>>

\* the entrypoint returns v
GuestReturn(i, v) ==
    /\ i \in live
    /\ gpc[i] = "code"
    /\ gpc' = [gpc EXCEPT ![i] = "none"]
    /\ state' = [state EXCEPT ![i] = "Finished"]
    /\ retval' = [retval EXCEPT ![i] = v]
    /\ StepEnds(i, Returned(v))
    /\ UNCHANGED <<live, async_context, expecting, resumed_val, term, callR,
                   futs, rets, yields, entrypoint, resume_val, result, awaits,
                   blockOns, runs>>

\* a step that ends with an error (the Err that the `?` on the step result
\* propagates): the guest traps.  Trap handling belongs to the instance
\* primitive; the state it leaves is outside the states of the data model.
GuestFault(i) ==
    /\ i \in live
    /\ gpc[i] = "code"
    /\ gpc' = [gpc EXCEPT ![i] = "none"]
    /\ state' = [state EXCEPT ![i] = "Faulted"]
    /\ StepEnds(i, Err("RuntimeFault"))
    /\ UNCHANGED <<live, async_context, expecting, resumed_val, term, callR,
                   futs, rets, retval, yields, entrypoint, resume_val, result,
                   awaits, blockOns, runs>>

\* run_func(func, args, ac): start the entrypoint on a Ready instance
RunFuncStarts(i, ac) ==
    /\ state' = [state EXCEPT ![i] = "Running"]
    /\ async_context' = [async_context EXCEPT ![i] = ac]
    /\ gpc' = [gpc EXCEPT ![i] = "code"]

\* a resume that switches to the guest stack and leaves the state Yielded
ResumeStarts_keepsState(i, rv, ac) ==
    /\ state' = state
    /\ async_context' = [async_context EXCEPT ![i] = ac]
    /\ expecting' = [expecting EXCEPT ![i] = "none"]
    /\ resumed_val' = [resumed_val EXCEPT ![i] = rv]
    /\ gpc' = [gpc EXCEPT ![i] = IF gpc[i] = "blocked" THEN "resumed" ELSE "code"]

\* resume_with_val_impl(val, ac): hand val to the yielded guest stack
ResumeStarts(i, rv, ac) ==
    /\ state' = [state EXCEPT ![i] = "Running"]
    /\ async_context' = [async_context EXCEPT ![i] = ac]
    /\ expecting' = [expecting EXCEPT ![i] = "none"]
    /\ resumed_val' = [resumed_val EXCEPT ![i] = rv]
    /\ gpc' = [gpc EXCEPT ![i] = IF gpc[i] = "blocked" THEN "resumed" ELSE "code"]

\* ------------------------------------------------------ synchronous callers
\* Instance::run: run_func with async_context = false
SyncRun(i) ==
    /\ i \in live
    /\ ~Active(i)
    /\ state[i] = "Ready"
    /\ RunFuncStarts(i, FALSE)
    /\ sync_result' = [sync_result EXCEPT ![i] = NoRes]
    /\ UNCHANGED <<live, expecting, resumed_val, term, callR, futs, rets,
                   retval, yields, drvVars>>

\* Instance::resume_with_val: a caller resumes a hostcall's own yield; ResumeVal
\* is private to future.rs, so a block_on yield cannot be resumed this way
SyncResume(i, v) ==
    /\ i \in live
    /\ ~Active(i)
    /\ state[i] = "Yielded"
    /\ expecting[i] = "Val"
    /\ ResumeStarts(i, None, FALSE)
    /\ sync_result' = [sync_result EXCEPT ![i] = NoRes]
    /\ UNCHANGED <<live, term, callR, futs, rets, retval, yields, drvVars>>

\* ---------------------------------------------------- Instance::run_async
\* a resume that does not assert the async context
ResumeAsyncContext_false == FALSE

\* the flag run_async passes to resume_with_val_impl and to run_func
ResumeAsyncContext == TRUE
StartAsyncContext == TRUE

\* a type test against the wrong envelope type
IsYieldedFuture_wrongType(r) == r.ty = "ResumeVal"

\* a type test that takes every yielded box for a future
IsYieldedFuture_any(r) == r.tag = "Yielded"

\* yval.is::<YieldedFuture>()
IsYieldedFuture(r) == r.ty = "YieldedFuture"

\* the error of the is_yielded check
CannotRunYielded == Err("cannot run_async a yielded instance")

\* the error for a yield that is not a future
UnsupportedYield == Err("cannot yield anything besides a future in Instance::run_async")

\* run_async without its is_yielded check
EntryCheck_missing(yielded) == "loop"

\* the check run_async makes before its loop
EntryCheck(yielded) == IF yielded THEN "reject" ELSE "loop"

\* run_async is called and polled up to its loop
RunAsync(i, ep) ==
    /\ i \in live
    /\ ~Active(i)
    /\ state[i] # "Running"
    /\ RunsBound(i)
    /\ runs' = [runs EXCEPT ![i] = @ + 1]
    /\ entrypoint' = [entrypoint EXCEPT ![i] = ep]
    /\ awaits' = [awaits EXCEPT ![i] = 0]
    /\ blockOns' = [blockOns EXCEPT ![i] = 0]
    /\ resume_val' = [resume_val EXCEPT ![i] = None]
    /\ run_result' = [run_result EXCEPT ![i] = NoRes]
    /\ IF EntryCheck(is_yielded(i)) = "reject"
       THEN /\ result' = [result EXCEPT ![i] = CannotRunYielded]
            /\ pc' = [pc EXCEPT ![i] = "returned"]
       ELSE /\ result' = [result EXCEPT ![i] = NoRes]
            /\ pc' = [pc EXCEPT ![i] = "loop"]
    /\ UNCHANGED <<live, instVars, guestVars, sync_result>>

\* a step closure that starts the entrypoint without resolving the export
Step_skipsLookup(i) ==
    /\ i \in live
    /\ pc[i] = "loop"
    /\ IF is_yielded(i)
       THEN IF resume_val[i] = None
            THEN \* expect("is_yielded implies resume_value is some")
                 /\ pc' = [pc EXCEPT ![i] = "panicked"]
                 /\ UNCHANGED <<instVars, gpc, resume_val, result>>
            ELSE /\ ResumeStarts(i, resume_val[i], ResumeAsyncContext)
                 /\ resume_val' = [resume_val EXCEPT ![i] = None]
                 /\ pc' = [pc EXCEPT ![i] = "step"]
                 /\ UNCHANGED <<term, result>>
       ELSE IF FALSE
            THEN /\ result' = [result EXCEPT ![i] = Err("EntrypointMissing")]
                 /\ pc' = [pc EXCEPT ![i] = "returned"]
                 /\ UNCHANGED <<instVars, gpc, resume_val>>
            ELSE IF state[i] = "Ready"
                 THEN /\ RunFuncStarts(i, StartAsyncContext)
                      /\ pc' = [pc EXCEPT ![i] = "step"]
                      /\ UNCHANGED <<expecting, resumed_val, term, resume_val, result>>
                 ELSE /\ result' = [result EXCEPT ![i] = Err("InstanceNotReady")]
                      /\ pc' = [pc EXCEPT ![i] = "returned"]
                      /\ UNCHANGED <<instVars, gpc, resume_val>>
    /\ UNCHANGED <<live, callR, futs, rets, retval, yields, entrypoint,
                   run_result, awaits, blockOns, runs, sync_result>>

\* a step closure that calls the entrypoint on every iteration
Step_alwaysStarts(i) ==
    /\ i \in live
    /\ pc[i] = "loop"
    /\ IF FALSE
       THEN IF resume_val[i] = None
            THEN \* expect("is_yielded implies resume_value is some")
                 /\ pc' = [pc EXCEPT ![i] = "panicked"]
                 /\ UNCHANGED <<instVars, gpc, resume_val, result>>
            ELSE /\ ResumeStarts(i, resume_val[i], ResumeAsyncContext)
                 /\ resume_val' = [resume_val EXCEPT ![i] = None]
                 /\ pc' = [pc EXCEPT ![i] = "step"]
                 /\ UNCHANGED <<term, result>>
       ELSE IF ~get_export_func(entrypoint[i])
            THEN /\ result' = [result EXCEPT ![i] = Err("EntrypointMissing")]
                 /\ pc' = [pc EXCEPT ![i] = "returned"]
                 /\ UNCHANGED <<instVars, gpc, resume_val>>
            ELSE IF state[i] = "Ready"
                 THEN /\ RunFuncStarts(i, StartAsyncContext)
                      /\ pc' = [pc EXCEPT ![i] = "step"]
                      /\ UNCHANGED <<expecting, resumed_val, term, resume_val, result>>
                 ELSE /\ result' = [result EXCEPT ![i] = Err("InstanceNotReady")]
                      /\ pc' = [pc EXCEPT ![i] = "returned"]
                      /\ UNCHANGED <<instVars, gpc, resume_val>>
    /\ UNCHANGED <<live, callR, futs, rets, retval, yields, entrypoint,
                   run_result, awaits, blockOns, runs, sync_result>>

\* a step closure that reads resume_val without taking it
Step_noTake(i) ==
    /\ i \in live
    /\ pc[i] = "loop"
    /\ IF is_yielded(i)
       THEN IF resume_val[i] = None
            THEN \* expect("is_yielded implies resume_value is some")
                 /\ pc' = [pc EXCEPT ![i] = "panicked"]
                 /\ UNCHANGED <<instVars, gpc, resume_val, result>>
            ELSE /\ ResumeStarts(i, resume_val[i], ResumeAsyncContext)
                 /\ pc' = [pc EXCEPT ![i] = "step"]
                 /\ UNCHANGED <<term, result, resume_val>>
       ELSE IF ~get_export_func(entrypoint[i])
            THEN /\ result' = [result EXCEPT ![i] = Err("EntrypointMissing")]
                 /\ pc' = [pc EXCEPT ![i] = "returned"]
                 /\ UNCHANGED <<instVars, gpc, resume_val>>
            ELSE IF state[i] = "Ready"
                 THEN /\ RunFuncStarts(i, StartAsyncContext)
                      /\ pc' = [pc EXCEPT ![i] = "step"]
                      /\ UNCHANGED <<expecting, resumed_val, term, resume_val, result>>
                 ELSE /\ result' = [result EXCEPT ![i] = Err("InstanceNotReady")]
                      /\ pc' = [pc EXCEPT ![i] = "returned"]
                      /\ UNCHANGED <<instVars, gpc, resume_val>>
    /\ UNCHANGED <<live, callR, futs, rets, retval, yields, entrypoint,
                   run_result, awaits, blockOns, runs, sync_result>>

\* wrap_blocking runs the step closure once
Step(i) ==
    /\ i \in live
    /\ pc[i] = "loop"
    /\ IF is_yielded(i)
       THEN IF resume_val[i] = None
            THEN \* expect("is_yielded implies resume_value is some")
                 /\ pc' = [pc EXCEPT ![i] = "panicked"]
                 /\ UNCHANGED <<instVars, gpc, resume_val, result>>
            ELSE /\ ResumeStarts(i, resume_val[i], ResumeAsyncContext)
                 /\ resume_val' = [resume_val EXCEPT ![i] = None]
                 /\ pc' = [pc EXCEPT ![i] = "step"]
                 /\ UNCHANGED <<term, result>>
       ELSE IF ~get_export_func(entrypoint[i])
            THEN /\ result' = [result EXCEPT ![i] = Err("EntrypointMissing")]
                 /\ pc' = [pc EXCEPT ![i] = "returned"]
                 /\ UNCHANGED <<instVars, gpc, resume_val>>
            ELSE IF state[i] = "Ready"
                 THEN /\ RunFuncStarts(i, StartAsyncContext)
                      /\ pc' = [pc EXCEPT ![i] = "step"]
                      /\ UNCHANGED <<expecting, resumed_val, term, resume_val, result>>
                 ELSE /\ result' = [result EXCEPT ![i] = Err("InstanceNotReady")]
                      /\ pc' = [pc EXCEPT ![i] = "returned"]
                      /\ UNCHANGED <<instVars, gpc, resume_val>>
    /\ UNCHANGED <<live, callR, futs, rets, retval, yields, entrypoint,
                   run_result, awaits, blockOns, runs, sync_result>>

\* a loop that goes round again after the entrypoint has returned
Inspect_loopsAfterReturn(i) ==
    /\ i \in live
    /\ pc[i] = "inspect"
    /\ LET r == run_result[i] IN
       CASE r.tag = "Err" ->
               /\ result' = [result EXCEPT ![i] = r]
               /\ pc' = [pc EXCEPT ![i] = "returned"]
               /\ UNCHANGED futs
         [] r.tag = "Returned" ->
               /\ pc' = [pc EXCEPT ![i] = "loop"]
               /\ UNCHANGED <<result, futs>>
         [] r.tag = "Yielded" /\ IsYieldedFuture(r) ->
               /\ futs' = [futs EXCEPT ![i][r.v].status = "pending"]
               /\ pc' = [pc EXCEPT ![i] = "await"]
               /\ UNCHANGED result
         [] OTHER ->
               /\ result' = [result EXCEPT ![i] = UnsupportedYield]
               /\ pc' = [pc EXCEPT ![i] = "returned"]
               /\ UNCHANGED futs
    /\ run_result' = [run_result EXCEPT ![i] = NoRes]
    /\ UNCHANGED <<live, instVars, gpc, callR, rets, retval, yields, entrypoint,
                   resume_val, awaits, blockOns, runs, sync_result>>

\* a loop that swallows a step's error and tries another step
Inspect_retriesOnError(i) ==
    /\ i \in live
    /\ pc[i] = "inspect"
    /\ LET r == run_result[i] IN
       CASE r.tag = "Err" ->
               /\ pc' = [pc EXCEPT ![i] = "loop"]
               /\ UNCHANGED <<result, futs>>
         [] r.tag = "Returned" ->
               /\ result' = [result EXCEPT ![i] = Ok(r.v)]
               /\ pc' = [pc EXCEPT ![i] = "returned"]
               /\ UNCHANGED futs
         [] r.tag = "Yielded" /\ IsYieldedFuture(r) ->
               /\ futs' = [futs EXCEPT ![i][r.v].status = "pending"]
               /\ pc' = [pc EXCEPT ![i] = "await"]
               /\ UNCHANGED result
         [] OTHER ->
               /\ result' = [result EXCEPT ![i] = UnsupportedYield]
               /\ pc' = [pc EXCEPT ![i] = "returned"]
               /\ UNCHANGED futs
    /\ run_result' = [run_result EXCEPT ![i] = NoRes]
    /\ UNCHANGED <<live, instVars, gpc, callR, rets, retval, yields, entrypoint,
                   resume_val, awaits, blockOns, runs, sync_result>>

\* the `?` on wrap_blocking's result and the match on the RunResult
Inspect(i) ==
    /\ i \in live
    /\ pc[i] = "inspect"
    /\ LET r == run_result[i] IN
       CASE r.tag = "Err" ->
               /\ result' = [result EXCEPT ![i] = r]
               /\ pc' = [pc EXCEPT ![i] = "returned"]
               /\ UNCHANGED futs
         [] r.tag = "Returned" ->
               /\ result' = [result EXCEPT ![i] = Ok(r.v)]
               /\ pc' = [pc EXCEPT ![i] = "returned"]
               /\ UNCHANGED futs
         [] r.tag = "Yielded" /\ IsYieldedFuture(r) ->
               /\ futs' = [futs EXCEPT ![i][r.v].status = "pending"]
               /\ pc' = [pc EXCEPT ![i] = "await"]
               /\ UNCHANGED result
         [] OTHER ->
               /\ result' = [result EXCEPT ![i] = UnsupportedYield]
               /\ pc' = [pc EXCEPT ![i] = "returned"]
               /\ UNCHANGED futs
    /\ run_result' = [run_result EXCEPT ![i] = NoRes]
    /\ UNCHANGED <<live, instVars, gpc, callR, rets, retval, yields, entrypoint,
                   resume_val, awaits, blockOns, runs, sync_result>>

\* the future the driver awaits
Awaited(i) == Len(futs[i])

\* the computation behind the awaited future completes
FutureReady(i) ==
    /\ i \in live
    /\ pc[i] = "await"
    /\ futs[i][Awaited(i)].status = "pending"
    /\ futs' = [futs EXCEPT ![i][Awaited(i)].status = "ready"]
    /\ UNCHANGED <<live, instVars, gpc, callR, rets, retval, yields, drvVars,
                   sync_result>>

\* a loop that counts the await but loses its result
AwaitDone_losesValue(i) ==
    /\ i \in live
    /\ pc[i] = "await"
    /\ futs[i][Awaited(i)].status = "ready"
    /\ futs' = [futs EXCEPT ![i][Awaited(i)].status = "consumed"]
    /\ awaits' = [awaits EXCEPT ![i] = @ + 1]
    /\ pc' = [pc EXCEPT ![i] = "loop"]
    /\ UNCHANGED <<live, instVars, gpc, callR, rets, retval, yields, entrypoint,
                   resume_val, run_result, result, blockOns, runs, sync_result>>

\* a loop that goes on to the next step without awaiting the future
AwaitDone_skipsAwait(i) ==
    /\ i \in live
    /\ pc[i] = "await"
    /\ resume_val' = [resume_val EXCEPT ![i] =
           BoxResumeVal(futs[i][Awaited(i)].R, futs[i][Awaited(i)].val)]
    /\ pc' = [pc EXCEPT ![i] = "loop"]
    /\ UNCHANGED <<live, instVars, guestVars, entrypoint, run_result, result,
                   awaits, blockOns, runs, sync_result>>

\* drivers that keep the awaited result in one slot shared by all instances
AwaitDone_sharedSlot(i) ==
    /\ i \in live
    /\ pc[i] = "await"
    /\ futs[i][Awaited(i)].status = "ready"
    /\ LET j == CHOOSE x \in live : futs[x] # <<>> /\ \A y \in live : futs[y] # <<>> => x <= y
       IN resume_val' = [resume_val EXCEPT ![i] =
              BoxResumeVal(futs[j][Awaited(j)].R, futs[j][Awaited(j)].val)]
    /\ futs' = [futs EXCEPT ![i][Awaited(i)].status = "consumed"]
    /\ awaits' = [awaits EXCEPT ![i] = @ + 1]
    /\ pc' = [pc EXCEPT ![i] = "loop"]
    /\ UNCHANGED <<live, instVars, gpc, callR, rets, retval, yields, entrypoint,
                   run_result, result, blockOns, runs, sync_result>>

\* a loop that polls the future through a reference and keeps it alive
AwaitDone_keepsFuture(i) ==
    /\ i \in live
    /\ pc[i] = "await"
    /\ futs[i][Awaited(i)].status = "ready"
    /\ resume_val' = [resume_val EXCEPT ![i] =
           BoxResumeVal(futs[i][Awaited(i)].R, futs[i][Awaited(i)].val)]
    /\ awaits' = [awaits EXCEPT ![i] = @ + 1]
    /\ pc' = [pc EXCEPT ![i] = "loop"]
    /\ UNCHANGED <<live, instVars, guestVars, entrypoint, run_result, result,
                   blockOns, runs, sync_result>>

\* resume_val = Some(future.await); continue
AwaitDone(i) ==
    /\ i \in live
    /\ pc[i] = "await"
    /\ futs[i][Awaited(i)].status = "ready"
    /\ resume_val' = [resume_val EXCEPT ![i] =
           BoxResumeVal(futs[i][Awaited(i)].R, futs[i][Awaited(i)].val)]
    /\ futs' = [futs EXCEPT ![i][Awaited(i)].status = "consumed"]
    /\ awaits' = [awaits EXCEPT ![i] = @ + 1]
    /\ pc' = [pc EXCEPT ![i] = "loop"]
    /\ UNCHANGED <<live, instVars, gpc, callR, rets, retval, yields, entrypoint,
                   run_result, result, blockOns, runs, sync_result>>

\* a driver whose awaited future is owned elsewhere and outlives the drop
Cancel_keepsFuture(i) ==
    /\ i \in live
    /\ pc[i] = "await"
    /\ pc' = [pc EXCEPT ![i] = "dropped"]
    /\ UNCHANGED <<live, instVars, guestVars, entrypoint, resume_val, run_result,
                   result, awaits, blockOns, runs, sync_result>>

\* the run_async future is dropped at its await
Cancel(i) ==
    /\ i \in live
    /\ pc[i] = "await"
    /\ futs' = [futs EXCEPT ![i][Awaited(i)].status = "dropped"]
    /\ pc' = [pc EXCEPT ![i] = "dropped"]
    /\ UNCHANGED <<live, instVars, gpc, callR, rets, retval, yields, entrypoint,
                   resume_val, run_result, result, awaits, blockOns, runs,
                   sync_result>>

\* ------------------------------------------------------------ specification
InitOf(L) ==
    /\ live = L
    /\ state = [i \in Instances |-> "Ready"]
    /\ async_context = [i \in Instances |-> FALSE]
    /\ expecting = [i \in Instances |-> "none"]
    /\ resumed_val = [i \in Instances |-> None]
    /\ term = [i \in Instances |-> "none"]
    /\ gpc = [i \in Instances |-> "none"]
    /\ callR = [i \in Instances |-> "none"]
    /\ futs = [i \in Instances |-> <<>>]
    /\ rets = [i \in Instances |-> <<>>]
    /\ retval = [i \in Instances |-> 0]
    /\ yields = [i \in Instances |-> 0]
    /\ pc = [i \in Instances |-> "idle"]
    /\ entrypoint = [i \in Instances |-> "none"]
    /\ resume_val = [i \in Instances |-> None]
    /\ run_result = [i \in Instances |-> NoRes]
    /\ result = [i \in Instances |-> NoRes]
    /\ awaits = [i \in Instances |-> 0]
    /\ blockOns = [i \in Instances |-> 0]
    /\ runs = [i \in Instances |-> 0]
    /\ sync_result = [i \in Instances |-> NoRes]

Init == InitOf({1})

Guest(i) ==
    \/ \E R \in Types, v \in Vals : GuestBlockOn(i, R, v)
    \/ BlockOnReturn(i)
    \/ \E v \in Vals : GuestYield(i, v)
    \/ \E v \in Vals : GuestReturn(i, v)
    \/ GuestFault(i)

Driver(i) ==
    \/ Step(i)
    \/ Inspect(i)
    \/ AwaitDone(i)

Callers(i) ==
    \/ \E ep \in Entrypoints : RunAsync(i, ep)
    \/ SyncRun(i)
    \/ \E v \in Vals : SyncResume(i, v)

Next ==
    \E i \in Instances :
        \/ Callers(i)
        \/ Driver(i)
        \/ Guest(i)
        \/ FutureReady(i)
        \/ Cancel(i)

Spec == Init /\ [][Next]_vars


\* the runs in which no driver is dropped, with an executor that keeps polling
\* the driver, steps that run to their end and futures that complete
NextLive ==
    \E i \in Instances :
        \/ Callers(i)
        \/ Driver(i)
        \/ Guest(i)
        \/ FutureReady(i)

Fairness ==
    \A i \in Instances :
        /\ WF_vars(Driver(i))
        /\ WF_vars(Guest(i))
        /\ WF_vars(FutureReady(i))

LiveSpec == Init /\ [][NextLive]_vars /\ Fairness

\* the runs whose steps end as the instance primitive's interface describes,
\* Returned or Yielded: the guest calls block_on, yields or returns and does
\* not trap
GuestNoTrap(i) ==
    \/ \E R \in Types, v \in Vals : GuestBlockOn(i, R, v)
    \/ BlockOnReturn(i)
    \/ \E v \in Vals : GuestYield(i, v)
    \/ \E v \in Vals : GuestReturn(i, v)

NextNoTrap ==
    \E i \in Instances :
        \/ Callers(i)
        \/ Driver(i)
        \/ GuestNoTrap(i)
        \/ FutureReady(i)
        \/ Cancel(i)

SpecNoTrap == Init /\ [][NextNoTrap]_vars

\* two instances, each driven only by its own run_async loop, the loops
\* interleaved on one scheduler
InitMulti == InitOf(Instances)

\* the guests of different instances compute with disjoint values, so that
\* a value that turns up in another instance is told apart from its own
ValsOf(i) == {v \in Vals : v % 2 = i % 2}

GuestMulti(i) ==
    \/ \E R \in Types, v \in ValsOf(i) : GuestBlockOn(i, R, v)
    \/ BlockOnReturn(i)
    \/ \E v \in ValsOf(i) : GuestYield(i, v)
    \/ \E v \in ValsOf(i) : GuestReturn(i, v)
    \/ GuestFault(i)

NextMulti ==
    \E i \in Instances :
        \/ \E ep \in Entrypoints : RunAsync(i, ep)
        \/ Driver(i)
        \/ GuestMulti(i)
        \/ FutureReady(i)
        \/ Cancel(i)

SpecMulti == InitMulti /\ [][NextMulti]_vars

\* ------------------------------------------------------------------ claims
\* the one run_async call made so far started the instance itself
FreshRun(i) == runs[i] = 1 /\ async_context[i]

\* C1: when run_async has returned from its first run on a fresh instance
\* whose entrypoint exists, made N block_on calls, yielded nothing else and
\* did not trap, the entrypoint has returned, run_async has completed exactly
\* N awaits and its result is Ok of the entrypoint's return value.
C1_NAwaitsThenReturnValue ==
    \A i \in live :
        ( /\ pc[i] = "returned"
          /\ FreshRun(i)
          /\ get_export_func(entrypoint[i])
          /\ yields[i] = 0
          /\ state[i] # "Faulted" )
        => /\ state[i] = "Finished"
           /\ result[i] = Ok(retval[i])
           /\ awaits[i] = Len(futs[i])
           /\ blockOns[i] = Len(futs[i])

C1_Witness ==
    \E i \in live :
        /\ pc[i] = "returned" /\ FreshRun(i) /\ yields[i] = 0
        /\ result[i] = Ok(retval[i]) /\ retval[i] = 2
        /\ awaits[i] = 2 /\ Len(futs[i]) = 2

\* C2: every value block_on has returned to a hostcall is the value its own
\* future resolved to, at the type R of that call, and the downcast of the
\* ResumeVal never fails.
C2_BlockOnReturnsFutureValue ==
    \A i \in live :
        /\ term[i] # "BrokeInvariant"
        /\ Len(rets[i]) <= Len(futs[i])
        /\ \A k \in 1 .. Len(rets[i]) :
               /\ rets[i][k].R = futs[i][k].R
               /\ rets[i][k].v = futs[i][k].val

C2_Witness ==
    \E i \in live :
        /\ Len(rets[i]) = 2
        /\ rets[i][1] = [R |-> "String", v |-> 2]
        /\ rets[i][2] = [R |-> "i32", v |-> 1]

\* C3: a block_on call made while the instance is Running with
\* async_context = false terminates the instance with AwaitNeedsAsync: no
\* future is yielded, nothing is returned to the hostcall, the guest stack is
\* gone and the synchronous caller gets the termination as its result.
C3_SyncBlockOnTerminates ==
    [][ \A i \in live : \A R \in Types, v \in Vals :
          ( /\ state[i] = "Running"
            /\ ~async_context[i]
            /\ GuestBlockOn(i, R, v) )
          => /\ state'[i] = "Terminated"
             /\ term'[i] = "AwaitNeedsAsync"
             /\ futs'[i] = futs[i]
             /\ rets'[i] = rets[i]
             /\ gpc'[i] = "none"
             /\ run_result'[i] = run_result[i]
             /\ sync_result'[i] = Err("AwaitNeedsAsync") ]_vars

C3_Witness ==
    \E i \in live :
        /\ state[i] = "Terminated"
        /\ term[i] = "AwaitNeedsAsync"
        /\ sync_result[i] = Err("AwaitNeedsAsync")
        /\ yields[i] = 1

\* C4: a run_async call on a Yielded instance returns the CannotRunYielded
\* error at once: the instance and the guest stack are unchanged, no step is
\* started (wrap_blocking is not entered) and nothing is awaited.
C4_RunAsyncOnYieldedRejected ==
    [][ \A i \in live :
          (state[i] = "Yielded" /\ runs'[i] = runs[i] + 1)
          => /\ result'[i] = CannotRunYielded
             /\ pc'[i] = "returned"
             /\ instVars' = instVars
             /\ guestVars' = guestVars
             /\ awaits'[i] = 0
             /\ resume_val'[i] = None ]_vars

C4_Witness ==
    \E i \in live :
        /\ pc[i] = "returned" /\ result[i] = CannotRunYielded
        /\ state[i] = "Yielded" /\ runs[i] = 1 /\ expecting[i] = "Val"

\* C5: when a step of a run_async run ends with a yield that is not a
\* YieldedFuture, run_async returns the UnsupportedYield error: it starts no
\* await and no resume, and the instance stays Yielded.
C5_NonFutureYieldIsUnsupported ==
    [][ \A i \in live :
          ( /\ pc[i] = "inspect"
            /\ run_result[i].tag = "Yielded"
            /\ run_result[i].ty # "YieldedFuture"
            /\ pc'[i] # pc[i] )
          => /\ result'[i] = UnsupportedYield
             /\ pc'[i] = "returned"
             /\ state[i] = "Yielded"
             /\ instVars' = instVars
             /\ guestVars' = guestVars
             /\ awaits'[i] = awaits[i]
             /\ resume_val'[i] = None ]_vars

C5_Witness ==
    \E i \in live :
        /\ pc[i] = "returned" /\ result[i] = UnsupportedYield
        /\ state[i] = "Yielded" /\ expecting[i] = "Val" /\ awaits[i] = 1

\* C6: once the driver has been dropped at an await, the future it awaited
\* is dropped, the instance is Yielded with its guest stack still inside
\* block_on, that driver is gone and block_on has not returned.
C6_CancelDropsFutureLeavesYielded ==
    \A i \in live :
        /\ pc[i] = "dropped" => futs[i][Awaited(i)].status = "dropped"
        /\ (pc[i] = "dropped" \/ (futs[i] # <<>> /\ futs[i][Awaited(i)].status = "dropped"))
           => /\ state[i] = "Yielded"
              /\ gpc[i] = "blocked"
              /\ expecting[i] = "ResumeVal"
              /\ resume_val[i] = None
              /\ ~Active(i)
              /\ Len(rets[i]) < Len(futs[i])
              /\ \A k \in 1 .. Len(futs[i]) : futs[i][k].status \in {"consumed", "dropped"}

C6_Witness ==
    \E i \in live :
        /\ pc[i] = "dropped" /\ Len(futs[i]) = 2
        /\ futs[i][2].status = "dropped" /\ state[i] = "Yielded"

\* C7: from a state in which run_async is over and has left the instance
\* Yielded, a run_async call returns CannotRunYielded and changes nothing of
\* the instance, and the instance leaves Yielded only by a synchronous
\* caller's own resume of a hostcall's yield, never of a block_on yield.
C7_YieldedStaysUntilExternalAction ==
    [][ \A i \in live :
          (pc[i] \in {"dropped", "returned"} /\ state[i] = "Yielded")
          => /\ runs'[i] = runs[i] + 1
                => /\ result'[i] = CannotRunYielded
                   /\ pc'[i] = "returned"
                   /\ instVars' = instVars
                   /\ guestVars' = guestVars
             /\ state'[i] # "Yielded"
                => /\ expecting[i] = "Val"
                   /\ state'[i] = "Running"
                   /\ ~async_context'[i]
                   /\ pc'[i] = pc[i] ]_vars

C7_Witness ==
    \E i \in live :
        /\ pc[i] = "returned" /\ result[i] = CannotRunYielded /\ runs[i] = 2
        /\ state[i] = "Yielded" /\ expecting[i] = "ResumeVal"
        /\ futs[i][Awaited(i)].status = "dropped"

\* C8 as stated: at the end of every run of run_async, returned or dropped,
\* the awaits completed equal the block_on calls the guest made in the run.
C8_AwaitsEqualBlockOnsEveryRun ==
    \A i \in live :
        pc[i] \in {"returned", "dropped"} => awaits[i] = blockOns[i]

\* C8 amended: a run of run_async that returns has completed as many awaits
\* as the guest made block_on calls in it; a run dropped at an await has
\* completed exactly one fewer; while a run is in progress the awaits are
\* the block_on calls, less the one whose future is not yet awaited through.
C8_AwaitsEqualBlockOnsOnReturn ==
    \A i \in live :
        /\ pc[i] = "returned" => awaits[i] = blockOns[i]
        /\ pc[i] = "dropped" => blockOns[i] = awaits[i] + 1
        /\ pc[i] \in {"loop", "step"} => awaits[i] = blockOns[i]
        /\ pc[i] = "await" => blockOns[i] = awaits[i] + 1

C8_Witness ==
    \E i \in live :
        /\ pc[i] = "returned" /\ result[i].tag = "Ok"
        /\ awaits[i] = 2 /\ blockOns[i] = 2

\* C9: while a step started by run_async is executing, the instance is
\* Running with async_context = true and the guest stack is live, and no step
\* of a run_async run ends in a termination with AwaitNeedsAsync.
C9_RunAsyncStepsSeeAsyncContext ==
    \A i \in live :
        /\ pc[i] = "step"
           => /\ state[i] = "Running"
              /\ async_context[i]
              /\ gpc[i] \in {"code", "resumed"}
        /\ pc[i] = "inspect" => run_result[i].err # "AwaitNeedsAsync"
        /\ result[i].err # "AwaitNeedsAsync"

C9_Witness ==
    \E i \in live :
        /\ pc[i] = "step" /\ gpc[i] = "code" /\ Len(rets[i]) = 2
        /\ state[i] = "Running" /\ async_context[i]

\* C10: when no driver is dropped, every step runs to its end, the guest
\* yields boundedly often and every awaited future completes, a run_async
\* run that has entered its loop eventually returns, with Ok of the
\* entrypoint's return value or with Err.
C10_RunAsyncEventuallyReturns ==
    \A i \in Instances :
        Active(i) ~> /\ pc[i] = "returned"
                     /\ result[i].tag \in {"Ok", "Err"}
                     /\ result[i].tag = "Ok" => result[i] = Ok(retval[i])

C10_Witness ==
    \E i \in live :
        /\ pc[i] = "returned" /\ result[i].tag = "Ok"
        /\ awaits[i] = 2 /\ Len(rets[i]) = 2 /\ runs[i] = 1 /\ retval[i] = 1

\* C11: at the top of every iteration of run_async's loop the instance is
\* Yielded exactly when resume_val is Some, so the step closure, run once per
\* iteration, never fails its expect on resume_val.
C11_YieldedIffResumeValSome ==
    \A i \in live :
        /\ pc[i] = "loop" => (is_yielded(i) <=> resume_val[i] # None)
        /\ pc[i] # "panicked"

C11_Witness ==
    \E i \in live :
        /\ pc[i] = "loop" /\ is_yielded(i) /\ awaits[i] = 2
        /\ resume_val[i] = [tid |-> "String", v |-> 2]

\* the futures of instance i that exist and have not run to completion
Unfinished(i) ==
    {k \in 1 .. Len(futs[i]) : futs[i][k].status \in {"boxed", "pending", "ready"}}

\* C12: whenever the instance is Running, and whenever the driver is at the
\* top of its loop or inside a step, every future passed to block_on so far
\* has completed and been consumed; block_on has returned only for calls
\* whose future is consumed.
C12_BlockOnReturnsAfterAwait ==
    \A i \in live :
        /\ (state[i] = "Running" \/ pc[i] \in {"loop", "step"})
           => \A k \in 1 .. Len(futs[i]) : futs[i][k].status = "consumed"
        /\ \A k \in 1 .. Len(rets[i]) : futs[i][k].status = "consumed"
        /\ Unfinished(i) \subseteq {Len(futs[i])}

C12_Witness ==
    \E i \in live :
        /\ state[i] = "Running" /\ gpc[i] = "code" /\ Len(rets[i]) = 2
        /\ futs[i][2].status = "consumed"

\* C13: a step of the instance and an await of its driver never overlap:
\* while the guest stack runs the driver is not awaiting and no future is
\* pending, while the driver awaits the instance is Yielded inside block_on,
\* and at most one future of the instance is unfinished at any time.
C13_StepAndAwaitExclusive ==
    \A i \in live :
        /\ (state[i] = "Running" \/ gpc[i] \in {"code", "resumed"})
           => pc[i] # "await" /\ Unfinished(i) = {}
        /\ pc[i] = "await"
           => /\ state[i] = "Yielded"
              /\ gpc[i] = "blocked"
              /\ Unfinished(i) = {Awaited(i)}
        /\ Cardinality(Unfinished(i)) <= 1

C13_Witness ==
    \E i \in live :
        /\ pc[i] = "await" /\ Len(futs[i]) = 2 /\ futs[i][2].status = "ready"
        /\ state[i] = "Yielded"

\* the state changes that the start, yield, resume and return of a step make
StepTransitions ==
    { <<"Ready", "Running">>, <<"Running", "Yielded">>,
      <<"Yielded", "Running">>, <<"Running", "Finished">> }

\* once a step has reported Returned, run_async returns Ok of that value and
\* then neither steps nor awaits
ReturnedEndsRun(i) ==
    /\ (pc[i] = "inspect" /\ run_result[i].tag = "Returned" /\ pc'[i] # pc[i])
       => /\ pc'[i] = "returned"
          /\ result'[i] = Ok(run_result[i].v)
          /\ state[i] = "Finished"
          /\ instVars' = instVars
          /\ guestVars' = guestVars
          /\ awaits'[i] = awaits[i]
    /\ (pc[i] = "returned" /\ result[i].tag = "Ok" /\ runs'[i] = runs[i])
       => /\ pc'[i] = pc[i]
          /\ state'[i] = "Finished"
          /\ awaits'[i] = awaits[i]
          /\ guestVars' = guestVars

C15_MissingEntrypointFails ==
    [][ \A i \in live :
          ( /\ pc[i] = "loop"
            /\ ~is_yielded(i)
            /\ entrypoint[i] \notin Exports
            /\ pc'[i] # pc[i] )
          => /\ result'[i] = Err("EntrypointMissing")
             /\ pc'[i] = "returned"
             /\ instVars' = instVars
             /\ guestVars' = guestVars
             /\ awaits[i] = 0 /\ awaits'[i] = 0
             /\ blockOns'[i] = 0 ]_vars

C15_Witness ==
    \E i \in live :
        /\ pc[i] = "returned" /\ result[i] = Err("EntrypointMissing")
        /\ state[i] = "Ready" /\ gpc[i] = "none" /\ runs[i] = 1

\* C16: a step of run_async starts the entrypoint only in the first
\* iteration (no await completed yet) and only from Ready, with an empty
\* guest history; every later iteration finds the instance Yielded and
\* resumes it inside its block_on call with the stored ResumeVal, which it
\* takes.
C16_StartOnceThenResume ==
    [][ \A i \in live :
          (pc[i] = "loop" /\ pc'[i] # pc[i])
          => IF awaits[i] = 0
             THEN /\ ~is_yielded(i)
                  /\ state'[i] # state[i]
                     => /\ state[i] = "Ready" /\ state'[i] = "Running"
                        /\ gpc'[i] = "code"
                        /\ futs[i] = <<>> /\ rets[i] = <<>>
                        /\ get_export_func(entrypoint[i])
             ELSE /\ is_yielded(i)
                  /\ resume_val[i] # None
                  /\ state'[i] = "Running"
                  /\ gpc[i] = "blocked" /\ gpc'[i] = "resumed"
                  /\ resumed_val'[i] = resume_val[i]
                  /\ resume_val'[i] = None
                  /\ pc'[i] = "step"
                  /\ futs'[i] = futs[i] /\ rets'[i] = rets[i] ]_vars

C16_Witness ==
    \E i \in live :
        /\ pc[i] = "step" /\ gpc[i] = "resumed" /\ awaits[i] = 2
        /\ resumed_val[i] = [tid |-> "i32", v |-> 1]

\* C17: when a step of a run_async run ends with an error, or the step
\* closure fails before it enters the guest, run_async returns that very
\* error: nothing of the instance changes, no await is made, and after the
\* return the driver does nothing more.
C17_StepErrorEndsRun ==
    [][ \A i \in live :
          /\ (pc[i] = "inspect" /\ run_result[i].tag = "Err" /\ pc'[i] # pc[i])
             => /\ result'[i] = run_result[i]
                /\ pc'[i] = "returned"
                /\ instVars' = instVars
                /\ guestVars' = guestVars
                /\ awaits'[i] = awaits[i]
                /\ resume_val'[i] = None
          /\ (pc[i] = "loop" /\ pc'[i] \notin {"loop", "step"})
             => /\ pc'[i] = "returned"
                /\ result'[i].tag = "Err"
                /\ instVars' = instVars
                /\ guestVars' = guestVars
          /\ (pc[i] = "returned" /\ result[i].tag = "Err" /\ runs'[i] = runs[i])
             => /\ pc'[i] = pc[i]
                /\ result'[i] = result[i]
                /\ awaits'[i] = awaits[i]
                /\ resume_val'[i] = None ]_vars

C17_Witness ==
    \E i \in live :
        /\ pc[i] = "returned" /\ result[i] = Err("RuntimeFault")
        /\ state[i] = "Faulted" /\ awaits[i] = 2 /\ Len(rets[i]) = 2

\* C19: whenever the guest stack is executing (guest code, a hostcall, or
\* block_on about to return), the instance's state is Running, and no
\* block_on call has ever taken its branch for another state; this holds for
\* steps started by run_async and by synchronous callers alike.
C19_HostcallsSeeRunning ==
    \A i \in live :
        /\ gpc[i] \in {"code", "resumed"} <=> state[i] = "Running"
        /\ term[i] # "unreachable"
        /\ run_result[i].err # "unreachable"
        /\ sync_result[i].err # "unreachable"

C19_Witness ==
    \E i \in live :
        /\ gpc[i] = "code" /\ state[i] = "Running" /\ ~async_context[i]
        /\ yields[i] = 1 /\ Len(rets[i]) = 1

\* the ResumeVals handed to the guest stack of instance i so far
Delivered(i) == Len(rets[i]) + (IF gpc[i] = "resumed" THEN 1 ELSE 0)

\* C20: resume_val is Some only at the top of the loop right after an await,
\* where it holds the result of the future just consumed; in the run that
\* served the instance's block_on calls the awaits completed are the
\* ResumeVals delivered to the guest plus the one waiting in resume_val,
\* each delivered value is its own future's, and
\* resume_val is None whenever run_async is not running (returned, dropped).
C20_ResumeValDeliveredOnce ==
    \A i \in live :
        /\ pc[i] # "loop" => resume_val[i] = None
        /\ resume_val[i] # None
           => /\ is_yielded(i) /\ gpc[i] = "blocked"
              /\ futs[i][Awaited(i)].status = "consumed"
              /\ resume_val[i] = [tid |-> futs[i][Awaited(i)].R,
                                  v |-> futs[i][Awaited(i)].val]
        /\ Len(futs[i]) = blockOns[i]
           => awaits[i] = Delivered(i) + (IF resume_val[i] # None THEN 1 ELSE 0)
        /\ gpc[i] = "resumed" /\ pc[i] = "step"
           => resumed_val[i] = [tid |-> futs[i][Awaited(i)].R,
                                v |-> futs[i][Awaited(i)].val]
        /\ Delivered(i) <= Len(futs[i])

C20_Witness ==
    \E i \in live :
        /\ pc[i] = "dropped" /\ resume_val[i] = None
        /\ awaits[i] = 2 /\ Delivered(i) = 2 /\ Len(futs[i]) = 3

\* everything the model holds of instance i
Own(i) ==
    <<state[i], async_context[i], expecting[i], resumed_val[i], term[i],
      gpc[i], callR[i], futs[i], rets[i], retval[i], yields[i],
      pc[i], entrypoint[i], resume_val[i], run_result[i], result[i],
      awaits[i], blockOns[i], runs[i], sync_result[i]>>

\* the ResumeVal of the future instance i passed to its latest block_on call
OwnResumeVal(i) == [tid |-> futs[i][Awaited(i)].R, v |-> futs[i][Awaited(i)].val]

\* the future a driver awaits, the value it stores and hands to its instance
\* and the outcome it returns are those of its own instance
OwnFutureOwnValue(i) ==
    /\ pc[i] = "await"
       => /\ futs[i] # <<>>
          /\ futs[i][Awaited(i)].status \in {"pending", "ready"}
          /\ Len(futs[i]) = blockOns[i] /\ blockOns[i] = awaits[i] + 1
    /\ resume_val[i] # None => resume_val[i] = OwnResumeVal(i)
    /\ resumed_val[i] # None => resumed_val[i] = OwnResumeVal(i)
    /\ \A k \in 1 .. Len(rets[i]) :
           rets[i][k] = [R |-> futs[i][k].R, v |-> futs[i][k].val]
    /\ (pc[i] = "returned" /\ result[i].tag = "Ok")
       => /\ result[i] = Ok(retval[i])
          /\ state[i] = "Finished"
          /\ awaits[i] = Len(futs[i])
    /\ (pc[i] = "returned" /\ result[i].tag = "Err" /\ runs[i] = 1)
       => result[i] = ( CASE ~get_export_func(entrypoint[i]) -> Err("EntrypointMissing")
                          [] state[i] = "Faulted" -> Err("RuntimeFault")
                          [] OTHER -> UnsupportedYield )

\* C18: with several instances driven by interleaved run_async loops, every
\* driver awaits a future its own instance's block_on produced in the step
\* just before, every ResumeVal stored, delivered and returned by block_on
\* is the result of the instance's own future, each run's outcome is fixed
\* by its own instance's guest, and no step of one instance or its driver
\* changes anything of another instance.
C18_InstancesIndependent ==
    /\ [](\A i \in live : OwnFutureOwnValue(i))
    /\ [][ \A i \in live : \A j \in live \ {i} :
             Own(i)' # Own(i) => Own(j)' = Own(j) ]_vars

C18_Witness ==
    /\ live = Instances
    /\ pc[1] = "returned" /\ result[1] = Ok(1) /\ awaits[1] = 1
    /\ pc[2] = "await" /\ futs[2][1].status = "ready"
    /\ rets[1] = <<[R |-> "String", v |-> 1]>>
    /\ futs[2][1].R = "i32" /\ futs[2][1].val = 2

====
